---------------------------- MODULE Spec2Model ----------------------------
(***************************************************************************)
(* Model of src/dic.py, the numerical core of the pyDIC subset tracker.    *)
(*                                                                         *)
(* Every function of dic.py is a pure function; the model is a state       *)
(* machine whose state is the last call made (its name and arguments) and  *)
(* what the call produced.  One action per function: it draws the          *)
(* arguments from bounded sets and computes the result as the code does.   *)
(*                                                                         *)
(* Numbers.  Gray levels are integers (0..MaxPix).  Arrays are sequences   *)
(* of rows, so numpy's index i is the model's index i+1.  Real numbers are *)
(* kept exact: a mean is carried as sum and count, a value with a fixed    *)
(* denominator as its integer numerator, and a quotient of standard        *)
(* deviations as the pair of the (scaled) variances under the root.        *)
(* Angles are whole quarter turns (1 = pi/2), where sine and cosine are    *)
(* exactly -1, 0 or 1.                                                     *)
(***************************************************************************)
EXTENDS Integers, Sequences, FiniteSets

VARIABLES op, args, ret

vars == <<op, args, ret>>

---------------------------------------------------------------------------
(* Bounds of the model *)

\* gray levels are 0..MaxPix
MaxPix == 2
\* zncc and get_error_image: images of at most this many pixels
MaxArea == 2
\* get_initial_guess: the ROI has at most this many pixels
MaxRoiArea == 4
\* get_initial_guess: the ROI is placed at row and column offsets 0..MaxShift
MaxShift == 1
\* translations vy, ux are -MaxT..MaxT
MaxT == 1
\* rotation angles are -MaxQ..MaxQ quarter turns
MaxQ == 2
\* sd_images: gradient and Jacobian heights and widths are 1..MaxDim
MaxDim == 2
\* sd_images and hessian: the entries of the arrays drawn are -MaxVal..MaxVal
MaxVal == 1
\* the reference ROI of the Hessian pipeline is at most MaxRoiDim x MaxRoiDim
MaxRoiDim == 3
\* and is a ramp base + sr*row + sc*col with slopes sr, sc in 0..MaxSlope
MaxSlope == 1
\* coordinate_warp: output shapes are up to MaxGrid x MaxGrid
MaxGrid == 3
\* warp_update: the entries of b are -MaxB..MaxB
MaxB == 1

---------------------------------------------------------------------------
(* Arrays *)

Height(a) == Len(a)
Width(a) == Len(a[1])
Shape(a) == <<Height(a), Width(a)>>

\* the h x w arrays with entries in S
Arrays(h, w, S) == [1..h -> [1..w -> S]]

\* the shapes of at most n entries
Shapes(n) == {s \in (1..n) \X (1..n) : s[1] * s[2] <= n}

Pix == 0..MaxPix

RECURSIVE SumSeq(_)
SumSeq(s) == IF s = <<>> THEN 0 ELSE s[1] + SumSeq(Tail(s))

\* np.sum of a 2-D array
SumAll(a) == SumSeq([r \in 1..Height(a) |-> SumSeq(a[r])])

Size(a) == Height(a) * Width(a)

\* elementwise product of two arrays of one shape
Times(a, b) == [r \in 1..Height(a) |-> [c \in 1..Width(a) |-> a[r][c] * b[r][c]]]

\* Size(a) * (a - a.mean()): the deviations from the mean, scaled to integers
Dev(a) == [r \in 1..Height(a) |-> [c \in 1..Width(a) |-> Size(a) * a[r][c] - SumAll(a)]]

\* Size(a)^3 * a.std()^2
VarN(a) == SumAll(Times(Dev(a), Dev(a)))

Returned(v) == [outcome |-> "return", value |-> v]
Raised(e) == [outcome |-> e]

---------------------------------------------------------------------------
(* zncc, dic.py 14-26.  The value num / sqrt(densq) is carried as the pair; *)
(* the literal 0 of line 25 is 0/sqrt(1), and 0/0 is NaN.                  *)

Zero == [num |-> 0, densq |-> 1]

\* the quotient nom/den of line 26
Quot(im1, im2) == [num |-> SumAll(Times(Dev(im1), Dev(im2))), densq |-> VarN(im1) * VarN(im2)]

\* line 23-24: den = im1.std()*im2.std() is 0
DenIsZero(im1, im2) == VarN(im1) * VarN(im2) = 0

zncc_unguarded(im1, im2) == Returned(Quot(im1, im2))

zncc(im1, im2) == IF DenIsZero(im1, im2) THEN Returned(Zero) ELSE Returned(Quot(im1, im2))

Zncc ==
    /\ op = "none"
    /\ \E s \in Shapes(MaxArea) :
       \E im1, im2 \in Arrays(s[1], s[2], Pix) :
        /\ op' = "zncc"
        /\ args' = [im1 |-> im1, im2 |-> im2]
        /\ ret' = zncc(im1, im2)

---------------------------------------------------------------------------
(* get_initial_guess, dic.py 29-42 *)

\* roi_image[::-1, ::-1] - np.mean(roi_image), scaled by Size(roi)
FlipCentre(roi) ==
    [r \in 1..Height(roi) |-> [c \in 1..Width(roi) |->
        Size(roi) * roi[Height(roi) + 1 - r][Width(roi) + 1 - c] - SumAll(roi)]]

\* roi_image - np.mean(roi_image) without the reversal
NoFlipCentre(roi) == Dev(roi)

\* the kernel line 38 hands to the convolution
RoiKernel(roi) == FlipCentre(roi)

\* scipy.signal.fftconvolve(t, k, mode='valid') for t at least as large as k:
\* out[i][j] = sum over a, b of k[a][b] * t[i + h - a][j + w - b]
ConvolveValid(t, k) ==
    LET h == Height(k)
        w == Width(k)
    IN  [i \in 1..(Height(t) - h + 1) |-> [j \in 1..(Width(t) - w + 1) |->
            SumAll([a \in 1..h |-> [b \in 1..w |-> k[a][b] * t[i + h - a][j + w - b]]])]]

\* a.ravel(): row-major order
Flat(a) == [k \in 1..Size(a) |-> a[((k - 1) \div Width(a)) + 1][((k - 1) % Width(a)) + 1]]

\* a.argmax(): the (0-based) flat index of the first maximal entry
ArgMax(a) ==
    LET s == Flat(a)
    IN  (CHOOSE k \in 1..Len(s) :
            /\ \A j \in 1..Len(s) : s[j] <= s[k]
            /\ \A j \in 1..(k - 1) : s[j] < s[k]) - 1

\* np.unravel_index(k, shape)
UnravelIndex(k, shape) == <<k \div shape[2], k % shape[2]>>

get_initial_guess(target, roi_image) ==
    IF Height(target) < Height(roi_image) \/ Width(target) < Width(roi_image)
    THEN Raised("ValueError")
    ELSE LET corr_fft == ConvolveValid(Dev(target), RoiKernel(roi_image))
         IN  Returned([guess |-> UnravelIndex(ArgMax(corr_fft), Shape(corr_fft)),
                       corr |-> corr_fft])

\* a zero background of th x tw pixels holding roi at offset (drow, dcol)
Embed(roi, drow, dcol, th, tw) ==
    [r \in 1..th |-> [c \in 1..tw |->
        IF (r - drow) \in 1..Height(roi) /\ (c - dcol) \in 1..Width(roi)
        THEN roi[r - drow][c - dcol] ELSE 0]]

GetInitialGuess ==
    /\ op = "none"
    /\ \E s \in Shapes(MaxRoiArea) :
       \E roi \in Arrays(s[1], s[2], Pix) :
       \E drow, dcol \in 0..MaxShift :
        LET target == Embed(roi, drow, dcol, s[1] + MaxShift, s[2] + MaxShift)
        IN  /\ op' = "get_initial_guess"
            /\ args' = [target |-> target, roi_image |-> roi, drow |-> drow, dcol |-> dcol]
            /\ ret' = get_initial_guess(target, roi)

---------------------------------------------------------------------------
(* get_gradient, dic.py 45-69.  A kernel is a 2-D array, as convolve2d    *)
(* requires: a sequence of rows, so that Python's len(k) is its number of  *)
(* rows.  The taps are integers over the common denominator "scale": 12    *)
(* for the finite-difference kernel of line 59, 10^8 for the eight         *)
(* decimals of the pre-filtered kernel of line 57.                         *)

\* np.transpose of a 2-D array
Transpose(a) == [c \in 1..Width(a) |-> [r \in 1..Height(a) |-> a[r][c]]]

GaussTaps == <<-14086616, -20863973, 0, 20863973, 14086616>>
FdTaps == <<1, -8, 0, 8, -1>>
GaussScale == 100000000
FdScale == 12

\* the kernel argument: the default string, or a tuple of kernels
CentralFd == [kind |-> "central_fd"]
Custom(ks) == [kind |-> "custom", kernels |-> ks]

\* line 61: the test a custom kernel tuple has to pass
KernelAccepted(kernel) == Len(kernel.kernels) = 2 /\ Len(kernel.kernels[1]) >= 3

\* scipy.signal.convolve2d(image, k, mode='same'), boundary filled with 0:
\* out[r][c] = sum over a, b of k[a][b] * image[r + (kh-1)//2 - a][c + (kw-1)//2 - b]
\* (0-based), the entries outside the image counting 0
ConvolveSame(image, k) ==
    LET kh == Height(k)
        kw == Width(k)
        At(r, c) == IF r \in 1..Height(image) /\ c \in 1..Width(image) THEN image[r][c] ELSE 0
    IN  [r \in 1..Height(image) |-> [c \in 1..Width(image) |->
            SumAll([a \in 1..kh |-> [b \in 1..kw |->
                k[a][b] * At(r + ((kh - 1) \div 2) - (a - 1), c + ((kw - 1) \div 2) - (b - 1))]])]]

\* lines 67-69
Convolutions(image, x_kernel, y_kernel, scale) ==
    Returned([gx |-> ConvolveSame(image, x_kernel),
              gy |-> ConvolveSame(image, y_kernel),
              scale |-> scale,
              x_kernel |-> x_kernel,
              y_kernel |-> y_kernel])

get_gradient(image, kernel, prefilter_gauss) ==
    IF kernel.kind = "central_fd"
    THEN LET taps == IF prefilter_gauss THEN GaussTaps ELSE FdTaps
             scale == IF prefilter_gauss THEN GaussScale ELSE FdScale
             x_kernel == <<taps>>
         IN  Convolutions(image, x_kernel, Transpose(x_kernel), scale)
    ELSE IF KernelAccepted(kernel)
    THEN Convolutions(image, kernel.kernels[1], kernel.kernels[2], 1)
    ELSE Raised("ValueError")

\* the kernels callers are drawn from: 1x5, 5x1, 3x1 and 1x2 arrays
KernelLib ==
    { <<FdTaps>>,
      Transpose(<<FdTaps>>),
      <<<<-1>>, <<0>>, <<1>>>>,
      <<<<-1, 1>>>> }

KernelCounts == 1..3

KernelArgs == {CentralFd} \cup {Custom(ks) : ks \in UNION {[1..n -> KernelLib] : n \in KernelCounts}}

GetGradient ==
    /\ op = "none"
    /\ \E s \in Shapes(MaxArea) :
       \E image \in Arrays(s[1], s[2], Pix) :
       \E kernel \in KernelArgs :
       \E prefilter_gauss \in BOOLEAN :
        /\ op' = "get_gradient"
        /\ args' = [image |-> image, kernel |-> kernel, prefilter_gauss |-> prefilter_gauss]
        /\ ret' = get_gradient(image, kernel, prefilter_gauss)

---------------------------------------------------------------------------
(* jacobian_rigid, dic.py 72-90: the two rows jx = [zeros, ones, -y] and   *)
(* jy = [ones, zeros, x] of h x w arrays, x and y the 0-based column and   *)
(* row index of np.meshgrid(np.arange(w), np.arange(h)).                   *)

jacobian_rigid(h, w) ==
    LET ones == [r \in 1..h |-> [c \in 1..w |-> 1]]
        zeros == [r \in 1..h |-> [c \in 1..w |-> 0]]
        x == [r \in 1..h |-> [c \in 1..w |-> c - 1]]
        y == [r \in 1..h |-> [c \in 1..w |-> r - 1]]
        negy == [r \in 1..h |-> [c \in 1..w |-> -y[r][c]]]
    IN  [jx |-> <<zeros, ones, negy>>, jy |-> <<ones, zeros, x>>]

---------------------------------------------------------------------------
(* sd_images, dic.py 93-107.  gx * jx multiplies a (h_g, w_g) array with a *)
(* (3, h_j, w_j) array under numpy's broadcasting: the trailing axes are   *)
(* paired, two lengths are compatible when they are equal or one of them   *)
(* is 1, the axis of length 1 is repeated; incompatible lengths raise      *)
(* ValueError ("operands could not be broadcast together").                *)

Max(a, b) == IF a >= b THEN a ELSE b

Compatible(m, n) == m = n \/ m = 1 \/ n = 1

\* the index an axis of length len is read at for index i of the result
Bc(i, len) == IF len = 1 THEN 1 ELSE i

\* g * j for a 2-D array g and a stack j of 2-D arrays, broadcast
BroadcastTimes(g, j) ==
    LET h == Max(Height(g), Height(j[1]))
        w == Max(Width(g), Width(j[1]))
    IN  [k \in 1..Len(j) |-> [r \in 1..h |-> [c \in 1..w |->
            g[Bc(r, Height(g))][Bc(c, Width(g))]
                * j[k][Bc(r, Height(j[1]))][Bc(c, Width(j[1]))]]]]

sd_images(grad, jac) ==
    IF ~(/\ Compatible(Height(grad.gx), Height(jac.jx[1]))
         /\ Compatible(Width(grad.gx), Width(jac.jx[1])))
    THEN Raised("ValueError")
    ELSE LET sd_x == BroadcastTimes(grad.gx, jac.jx)
             sd_y == BroadcastTimes(grad.gy, jac.jy)
         IN  Returned([k \in 1..Len(sd_x) |->
                 [r \in 1..Height(sd_x[1]) |-> [c \in 1..Width(sd_x[1]) |->
                     sd_x[k][r][c] + sd_y[k][r][c]]]])

Vals == -MaxVal..MaxVal

\* gradients drawn for sd_images: gx = a + b*x, gy = c + b*y on a hg x wg grid
SdImages ==
    /\ op = "none"
    /\ \E hg, wg, hj, wj \in 1..MaxDim :
       \E a, b, c \in Vals :
        LET grad == [gx |-> [r \in 1..hg |-> [q \in 1..wg |-> a + b * (q - 1)]],
                     gy |-> [r \in 1..hg |-> [q \in 1..wg |-> c + b * (r - 1)]]]
            jac == jacobian_rigid(hj, wj)
        IN  /\ op' = "sd_images"
            /\ args' = [grad |-> grad, jac |-> jac]
            /\ ret' = sd_images(grad, jac)

---------------------------------------------------------------------------
(* hessian, dic.py 110-129.  H starts as zeros (line 120); the two loops   *)
(* visit the cells (i, j) in row-major order, cell number k = i*n + j.     *)

ZerosSq(n) == [i \in 1..n |-> [j \in 1..n |-> 0]]

\* the lower triangle read from the cell itself, which still holds zero
HCellUnmirrored(sd_im, H, i, j) ==
    IF j >= i
    THEN SumAll(Times(sd_im[i + 1], sd_im[j + 1]))
    ELSE H[i + 1][j + 1]

\* lines 124-128 for the (0-based) cell (i, j): the value written to H[i, j]
HCell(sd_im, H, i, j) ==
    IF j >= i
    THEN SumAll(Times(sd_im[i + 1], sd_im[j + 1]))
    ELSE H[j + 1][i + 1]

RECURSIVE HLoop(_, _, _, _)
HLoop(sd_im, n, k, H) ==
    IF k >= n * n THEN H
    ELSE LET i == k \div n
             j == k % n
         IN  HLoop(sd_im, n, k + 1,
                   [H EXCEPT ![i + 1] = [@ EXCEPT ![j + 1] = HCell(sd_im, H, i, j)]])

hessian(sd_im, n_param) ==
    IF n_param > Len(sd_im)
    THEN Raised("IndexError")
    ELSE Returned(HLoop(sd_im, n_param, 0, ZerosSq(n_param)))

ParamCounts == 1..3

SdShapes == {<<1, 1>>, <<1, 2>>}

Hessian ==
    /\ op = "none"
    /\ \E s \in SdShapes :
       \E sd_im \in [1..3 -> Arrays(s[1], s[2], Vals)] :
       \E n_param \in ParamCounts :
        /\ op' = "hessian"
        /\ args' = [sd_im |-> sd_im, n_param |-> n_param]
        /\ ret' = hessian(sd_im, n_param)

---------------------------------------------------------------------------
(* The reference preparation the functions are written for: get_gradient   *)
(* of the reference ROI, sd_images with the rigid Jacobian of the ROI's     *)
(* shape, hessian of the three steepest-descent images.  The un-filtered   *)
(* kernel is used, whose taps over 12 are integers, so that H * 144 is     *)
(* exact.                                                                  *)

Ramp(h, w, base, sr, sc) == [r \in 1..h |-> [c \in 1..w |-> base + sr * (r - 1) + sc * (c - 1)]]

ReferenceHessian ==
    /\ op = "none"
    /\ \E h, w \in 1..MaxRoiDim :
       \E base \in Pix :
       \E sr, sc \in 0..MaxSlope :
        LET roi == Ramp(h, w, base, sr, sc)
            grad == get_gradient(roi, CentralFd, FALSE).value
            sd_im == sd_images(grad, jacobian_rigid(h, w)).value
        IN  /\ op' = "reference_hessian"
            /\ args' = [roi |-> roi]
            /\ ret' = [outcome |-> "return", grad |-> grad, sd_im |-> sd_im,
                       value |-> hessian(sd_im, 3).value]

---------------------------------------------------------------------------
(* rigid_transform_matrix and param_from_rt_matrix, dic.py 132-160.        *)
(* Angles are whole quarter turns: np.sin and np.cos of q * pi/2.          *)

Sin(q) == CASE q % 4 = 0 -> 0 [] q % 4 = 1 -> 1 [] q % 4 = 2 -> 0 [] q % 4 = 3 -> -1
Cos(q) == CASE q % 4 = 0 -> 1 [] q % 4 = 1 -> 0 [] q % 4 = 2 -> -1 [] q % 4 = 3 -> 0

\* np.arcsin's nan, as a number that is no angle of the model
NaN == 99

\* np.arcsin, in quarter turns: the principal value, in [-pi/2, pi/2]; an
\* argument outside [-1, 1] gives nan (a RuntimeWarning, never a ValueError,
\* so that the except branch of lines 158-159 is never taken)
ArcSin(s) == CASE s = -1 -> -1 [] s = 0 -> 0 [] s = 1 -> 1 [] OTHER -> NaN

\* sine and cosine taken for each other
rigid_transform_matrix_swapped(p) ==
    << <<Sin(p[3]), -Cos(p[3]), p[2]>>,
       <<Cos(p[3]), Sin(p[3]), p[1]>>,
       <<0, 0, 1>> >>

\* p = [vy, ux, phi]
rigid_transform_matrix(p) ==
    << <<Cos(p[3]), -Sin(p[3]), p[2]>>,
       <<Sin(p[3]), Cos(p[3]), p[1]>>,
       <<0, 0, 1>> >>

\* matrix[1, -1], matrix[0, -1], arcsin(matrix[1, 0])
param_from_rt_matrix(matrix) ==
    LET vy == matrix[2][3]
        ux == matrix[1][3]
        phi == ArcSin(matrix[2][1])
    IN  <<vy, ux, phi>>

Params == (-MaxT..MaxT) \X (-MaxT..MaxT) \X (-MaxQ..MaxQ)

RigidTransformMatrix ==
    /\ op = "none"
    /\ \E p \in Params :
        /\ op' = "rigid_transform_matrix"
        /\ args' = [p |-> p]
        /\ ret' = Returned(rigid_transform_matrix(p))

\* the matrix just built is handed back for its parameters
ParamFromRtMatrix ==
    /\ op = "rigid_transform_matrix"
    /\ op' = "param_from_rt_matrix"
    /\ args' = [matrix |-> ret.value, p |-> args.p]
    /\ ret' = Returned(param_from_rt_matrix(ret.value))

---------------------------------------------------------------------------
(* coordinate_warp, dic.py 164-178 *)

\* np.arange(n)
Arange(n) == [i \in 1..n |-> i - 1]

\* np.tile(s, n): n copies of s, one after the other
Tile(s, n) == [k \in 1..(Len(s) * n) |-> s[((k - 1) % Len(s)) + 1]]

\* np.repeat(s, n): each entry of s n times
Repeat(s, n) == [k \in 1..(Len(s) * n) |-> s[((k - 1) \div n) + 1]]

\* np.dot of two 2-D arrays
Dot(a, b) ==
    [i \in 1..Height(a) |-> [j \in 1..Width(b) |->
        SumSeq([k \in 1..Width(a) |-> a[i][k] * b[k][j]])]]

\* the x coordinates taken row by row where the code takes them column by column
GridSwapped(h, w) ==
    <<Repeat(Arange(w), h), Tile(Arange(h), w), [k \in 1..(w * h) |-> 1]>>

\* lines 173-175: the homogeneous coordinates xy_h of the h x w grid
Grid(h, w) ==
    <<Tile(Arange(w), h), Repeat(Arange(h), w), [k \in 1..(w * h) |-> 1]>>

coordinate_warp(matrix, output_shape) ==
    LET h == output_shape[1]
        w == output_shape[2]
        uv_h == Dot(matrix, Grid(h, w))
    IN  Returned([x |-> uv_h[1], y |-> uv_h[2]])

CoordinateWarp ==
    /\ op = "none"
    /\ \E p \in Params :
       \E h, w \in 1..MaxGrid :
        /\ op' = "coordinate_warp"
        /\ args' = [matrix |-> rigid_transform_matrix(p), output_shape |-> <<h, w>>]
        /\ ret' = coordinate_warp(rigid_transform_matrix(p), <<h, w>>)

---------------------------------------------------------------------------
(* get_error_image, dic.py 208-221.  Floating point: x/0 is inf for x > 0  *)
(* and nan for x = 0 (numpy warns and goes on), inf*0 and anything with    *)
(* nan are nan.  f_stats is the pair (mean, standard deviation) of f; the  *)
(* standard deviations enter through the scaled variances VarN, and an     *)
(* entry N*err = Dev(f) - sqrt(num2/den2)*Dev(g) is kept as its parts.     *)

\* sd_f/sd_g of line 220
StdRatio(var_f, var_g) ==
    IF var_g = 0
    THEN (IF var_f = 0 THEN [kind |-> "nan"] ELSE [kind |-> "inf"])
    ELSE [kind |-> "finite", num2 |-> var_f, den2 |-> var_g]

\* one entry a - ratio*b
ErrEntry(a, ratio, b) ==
    CASE ratio.kind = "finite" -> [kind |-> "finite", a |-> a, ratio |-> ratio, b |-> b]
      [] ratio.kind = "inf" /\ b = 0 -> [kind |-> "nan"]
      [] ratio.kind = "inf" /\ b > 0 -> [kind |-> "-inf"]
      [] ratio.kind = "inf" /\ b < 0 -> [kind |-> "inf"]
      [] OTHER -> [kind |-> "nan"]

get_error_image(f, f_stats, g) ==
    LET ratio == StdRatio(f_stats.var, VarN(g))
    IN  Returned([r \in 1..Height(f) |-> [c \in 1..Width(f) |->
            ErrEntry(Size(f) * f[r][c] - f_stats.sum, ratio, Dev(g)[r][c])]])

GetErrorImage ==
    /\ op = "none"
    /\ \E s \in Shapes(MaxArea) :
       \E f, g \in Arrays(s[1], s[2], Pix) :
        LET f_stats == [sum |-> SumAll(f), var |-> VarN(f)]
        IN  /\ op' = "get_error_image"
            /\ args' = [f |-> f, f_stats |-> f_stats, g |-> g]
            /\ ret' = get_error_image(f, f_stats, g)

---------------------------------------------------------------------------
(* warp_update, dic.py 242-255 *)

\* the determinant of a 2 x 2 array
Det2(a, b, c, d) == a * d - b * c

\* the two indices of 1..3 other than i, in order
Others(i) == CASE i = 1 -> <<2, 3>> [] i = 2 -> <<1, 3>> [] i = 3 -> <<1, 2>>

Cofactor(m, i, j) ==
    LET r == Others(i)
        c == Others(j)
        minor == Det2(m[r[1]][c[1]], m[r[1]][c[2]], m[r[2]][c[1]], m[r[2]][c[2]])
    IN  IF (i + j) % 2 = 0 THEN minor ELSE -minor

Determinant(m) == m[1][1] * Cofactor(m, 1, 1) + m[1][2] * Cofactor(m, 1, 2) + m[1][3] * Cofactor(m, 1, 3)

\* np.linalg.inv of a 3 x 3 matrix of determinant 1 or -1: the adjugate over
\* the determinant
Inv(m) == [i \in 1..3 |-> [j \in 1..3 |-> Cofactor(m, j, i) \div Determinant(m)]]

\* np.dot of a matrix and a vector
DotVec(a, v) == [i \in 1..Height(a) |-> SumSeq([k \in 1..Len(v) |-> a[i][k] * v[k]])]

warp_update(inv_H, b, warp) ==
    LET dp == DotVec(inv_H, b)
        increment == rigid_transform_matrix(dp)
    IN  IF Determinant(increment) = 0
        THEN Raised("LinAlgError")
        ELSE Returned(Dot(warp, Inv(increment)))

\* inverse Hessians drawn: symmetric
InvHs ==
    { << <<1, 0, 0>>, <<0, 1, 0>>, <<0, 0, 1>> >>,
      << <<2, 1, 0>>, <<1, 2, 1>>, <<0, 1, 2>> >> }

WarpUpdate ==
    /\ op = "none"
    /\ \E inv_H \in InvHs :
       \E b \in [1..3 -> -MaxB..MaxB] :
       \E p \in Params :
        /\ op' = "warp_update"
        /\ args' = [inv_H |-> inv_H, b |-> b, warp |-> rigid_transform_matrix(p)]
        /\ ret' = warp_update(inv_H, b, rigid_transform_matrix(p))

---------------------------------------------------------------------------

Init ==
    /\ op = "none"
    /\ args = [none |-> TRUE]
    /\ ret = Raised("none")

Next ==
    \/ Zncc
    \/ GetInitialGuess
    \/ GetGradient
    \/ SdImages
    \/ Hessian
    \/ ReferenceHessian
    \/ RigidTransformMatrix
    \/ ParamFromRtMatrix
    \/ CoordinateWarp
    \/ GetErrorImage
    \/ WarpUpdate

Spec == Init /\ [][Next]_vars

---------------------------------------------------------------------------
(* Claims *)

IsConstant(a) == \A r \in 1..Height(a) : \A c \in 1..Width(a) : a[r][c] = a[1][1]

IsTwoLevel(a) ==
    /\ ~IsConstant(a)
    /\ \E v \in Pix \ {0} :
        \A r \in 1..Height(a) : \A c \in 1..Width(a) : a[r][c] \in {0, v}

\* C2 as stated: for a zero background holding an exact copy of any
\* non-uniform ROI at integer offset (drow, dcol), get_initial_guess returns
\* exactly (drow, dcol).
C2_AnyPatternRecovered ==
    (op = "get_initial_guess" /\ ~IsConstant(args.roi_image))
        => (ret.outcome = "return" /\ ret.value.guess = <<args.drow, args.dcol>>)

\* C2 amended: when the non-uniform ROI has only the gray levels 0 and one
\* positive level, get_initial_guess returns exactly (drow, dcol), and the
\* correlation surface is strictly smaller everywhere else.
C2_TwoLevelPatternRecovered ==
    (op = "get_initial_guess" /\ IsTwoLevel(args.roi_image))
        => /\ ret.outcome = "return"
           /\ ret.value.guess = <<args.drow, args.dcol>>
           /\ \A i \in 1..Height(ret.value.corr) : \A j \in 1..Width(ret.value.corr) :
                <<i - 1, j - 1>> # <<args.drow, args.dcol>>
                    => ret.value.corr[i][j] < ret.value.corr[args.drow + 1][args.dcol + 1]

C2_Witness ==
    /\ op = "get_initial_guess"
    /\ IsTwoLevel(args.roi_image)
    /\ Shape(args.roi_image) = <<2, 2>>
    /\ args.roi_image[1][1] # args.roi_image[2][2]
    /\ args.drow = 1
    /\ args.dcol = 0
    /\ ret.outcome = "return"
    /\ ret.value.guess = <<1, 0>>

\* C5's criterion: fewer than 2 kernels, or some kernel row of fewer than 3 taps
C5_Invalid(ks) ==
    \/ Len(ks) < 2
    \/ \E i \in 1..Len(ks) : \E r \in 1..Height(ks[i]) : Len(ks[i][r]) < 3

\* C5: get_gradient with a custom kernel specification fails with ValueError,
\* before any convolution, exactly when the specification has fewer than 2
\* kernels or some kernel row has fewer than 3 taps; two kernels whose rows
\* have at least 3 taps each are accepted and used as given.
C5_KernelCheckExact ==
    (op = "get_gradient" /\ args.kernel.kind = "custom")
        => IF C5_Invalid(args.kernel.kernels)
           THEN ret.outcome = "ValueError"
           ELSE /\ ret.outcome = "return"
                /\ ret.value.x_kernel = args.kernel.kernels[1]
                /\ ret.value.y_kernel = args.kernel.kernels[2]

\* C6: sd_images(grad, jac) fails with an invalid-argument error whenever
\* the image shape of grad differs from the positional shape of jac; it
\* never returns a broadcast result.
C6_ShapeMismatchRejected ==
    (op = "sd_images" /\ Shape(args.grad.gx) # Shape(args.jac.jx[1]))
        => ret.outcome = "ValueError"

\* C9: hessian(sd_im, n_param) returns H with H[i,j] = H[j,i] for all i, j,
\* each entry being the sum over the pixels of sd_i * sd_j.
C9_HessianSymmetric ==
    (op \in {"hessian", "reference_hessian"} /\ ret.outcome = "return")
        => LET sd == IF op = "hessian" THEN args.sd_im ELSE ret.sd_im
           IN  \A i, j \in 1..Len(ret.value) :
                /\ ret.value[i][j] = ret.value[j][i]
                /\ ret.value[i][j] = SumAll(Times(sd[i], sd[j]))

C9_Witness ==
    /\ op = "hessian"
    /\ args.n_param = 3
    /\ ret.outcome = "return"
    /\ ret.value[3][1] # 0
    /\ ret.value[3][1] = ret.value[1][3]
    /\ ret.value[2][1] # ret.value[3][1]

RECURSIVE Gcd(_, _)
Gcd(a, b) == IF b = 0 THEN a ELSE Gcd(b, a % b)

Abs(x) == IF x < 0 THEN -x ELSE x

\* the determinant of a 3 x 3 matrix
Det3(m) ==
    m[1][1] * (m[2][2] * m[3][3] - m[2][3] * m[3][2])
    - m[1][2] * (m[2][1] * m[3][3] - m[2][3] * m[3][1])
    + m[1][3] * (m[2][1] * m[3][2] - m[2][2] * m[3][1])

\* a 3 x 3 matrix is singular: its determinant is 0 (taken after dividing
\* the entries by their common divisor, which leaves singularity as it is)
Singular(m) ==
    LET g == Gcd(Gcd(Gcd(Abs(m[1][1]), Abs(m[1][2])), Gcd(Abs(m[1][3]), Abs(m[2][2]))),
                 Gcd(Abs(m[2][3]), Abs(m[3][3])))
    IN  g = 0 \/ Det3([i \in 1..3 |-> [j \in 1..3 |-> m[i][j] \div g]]) = 0

\* C3: a reference ROI of uniform intensity, zero or non-zero, yields a
\* singular Hessian through get_gradient -> sd_images -> hessian.
C3_UniformRoiSingular ==
    (op = "reference_hessian" /\ IsConstant(args.roi)) => Singular(ret.value)

\* C1: for every rigid parameter vector p = (vy, ux, phi),
\* param_from_rt_matrix(rigid_transform_matrix(p)) returns p again, also for
\* angles outside [-pi/2, pi/2] such as phi = pi.
C1_RoundTrip ==
    op = "param_from_rt_matrix" => ret.value = args.p

\* C4: get_error_image with a current ROI sample g of zero variance ends in
\* an error outcome; it never returns an error image computed from the
\* division by the zero standard deviation.
C4_ZeroVarianceRaises ==
    (op = "get_error_image" /\ IsConstant(args.g)) => ret.outcome # "return"

Identity3 == << <<1, 0, 0>>, <<0, 1, 0>>, <<0, 0, 1>> >>

\* C8: warp_update(inv_H, b, warp) with b the zero vector returns a matrix
\* equal to warp, for any inv_H and any rigid warp matrix.
C8_ZeroStepIsNoOp ==
    (op = "warp_update" /\ args.b = <<0, 0, 0>>) => ret = Returned(args.warp)

C8_Witness ==
    /\ op = "warp_update"
    /\ args.b = <<0, 0, 0>>
    /\ args.inv_H # Identity3
    /\ args.warp = rigid_transform_matrix(<<1, -1, 1>>)
    /\ ret = Returned(args.warp)

\* C10: coordinate_warp(identity, (h, w)) returns two arrays of length h*w
\* in row-major order: at position r*w + c the x coordinate is c and the y
\* coordinate is r.
C10_IdentityGrid ==
    (op = "coordinate_warp" /\ args.matrix = Identity3)
        => LET h == args.output_shape[1]
               w == args.output_shape[2]
           IN  /\ ret.outcome = "return"
               /\ Len(ret.value.x) = h * w
               /\ Len(ret.value.y) = h * w
               /\ \A r \in 0..(h - 1) : \A c \in 0..(w - 1) :
                    /\ ret.value.x[r * w + c + 1] = c
                    /\ ret.value.y[r * w + c + 1] = r

C10_Witness ==
    /\ op = "coordinate_warp"
    /\ args.matrix = Identity3
    /\ args.output_shape = <<2, 3>>
    /\ ret.outcome = "return"
    /\ ret.value.x = <<0, 1, 2, 0, 1, 2>>
    /\ ret.value.y = <<0, 0, 0, 1, 1, 1>>

===========================================================================
